---- MODULE Spec2Model ----
(***************************************************************************)
(* State-machine model of the platformer's simulation core: the player     *)
(* (src/player.py), the platforms, hazards and collectibles of a level     *)
(* (src/platforms.py, src/level.py), the enemies (src/enemy.py) and the    *)
(* per-tick game loop (src/main.py, Game.update_playing).                  *)
(*                                                                         *)
(* Numbers.  pygame.Rect coordinates are integers (pixels).  Velocities    *)
(* are Python floats; they are modelled in fixed point, Scale units per    *)
(* pixel-per-tick (tenths), and every product with a fractional factor     *)
(* (friction 0.85, the 0.5 jump cut) is truncated toward zero to a whole   *)
(* number of units.  Assigning a float to a Rect coordinate truncates      *)
(* toward zero, which PxAdd models.                                        *)
(***************************************************************************)
EXTENDS Integers, Sequences, FiniteSets, TLC

(***************************************************************************)
(* Arithmetic helpers                                                      *)
(***************************************************************************)
Scale == 2 * 5

Abs(a) == IF a >= 0 THEN a ELSE -a
Min(a, b) == IF a <= b THEN a ELSE b
Max(a, b) == IF a >= b THEN a ELSE b

\* integer quotient truncated toward zero (C / Python int() semantics)
TruncDiv(a, b) == IF a >= 0 THEN a \div b ELSE -((-a) \div b)

\* velocity * (num/den), kept in velocity units
MulFrac(v, num, den) == TruncDiv(v * num, den)

\* rect.x += vel : integer pixel plus float velocity, stored back as an int
PxAdd(px, vel) == TruncDiv(px * Scale + vel, Scale)

(***************************************************************************)
(* src/constants.py                                                        *)
(***************************************************************************)
SCREEN_HEIGHT == 800
GRAVITY == (8 * Scale) \div 10
TERMINAL_VELOCITY == 20 * Scale
FRICTION_NUM == 85
FRICTION_DEN == 100
PLAYER_WIDTH == 32
PLAYER_HEIGHT == 48
PLAYER_ACCELERATION == (8 * Scale) \div 10
PLAYER_MAX_SPEED == 6 * Scale
PLAYER_JUMP_STRENGTH == -16 * Scale
PLAYER_DOUBLE_JUMP_STRENGTH == -14 * Scale
PLAYER_DASH_SPEED == 15 * Scale
PLAYER_DASH_DURATION == 12
PLAYER_DASH_COOLDOWN == 40
PLAYER_WALL_SLIDE_SPEED == 2 * Scale
PLAYER_WALL_JUMP_X == 10 * Scale
PLAYER_WALL_JUMP_Y == -14 * Scale
PLAYER_COYOTE_TIME == 6
PLAYER_JUMP_BUFFER == 8
PLAYER_MAX_HEALTH == 3
PLAYER_INVINCIBILITY_FRAMES == 90
WALL_JUMP_LOCKOUT == 5
FALL_DEATH_DAMAGE == 999
FALL_DEATH_MARGIN == 100
\* squash/stretch scalars in hundredths
SQUASH_LAND == 70
STRETCH_JUMP == 130
SQUASH_RECOVERY_SPEED == 15
SQUASH_NORMAL == 100
POWERUP_DURATION == 300
COIN_SIZE == 16
COIN_VALUE == 10
POWERUP_SIZE == 24
FALL_DELAY == 20
BOUNCE_STRENGTH == -20 * Scale
BOUNCE_ANIMATION_FRAMES == 10
STOMP_BOUNCE == -12 * Scale
STOMP_TOLERANCE == 20
ONEWAY_TOLERANCE == 10
STOMP_SCORE == 100
ENEMY_CHASE_RANGE == 300
ENEMY_SHOOT_COOLDOWN == 90
ENEMY_PROJECTILE_SPEED == 7
PROJECTILE_RADIUS == 6
PROJECTILE_LIFETIME == 120

\* the friction table without the fallback: an unknown type has no friction entry
PlatformFrictionKnown(type) ==
    CASE type = "ice" -> 40
      [] type = "sticky" -> 150
      [] type \in {"normal", "bouncy", "fall", "oneway"} -> 100
      [] OTHER -> 0

\* PLATFORM_TYPES[...]['friction'] in hundredths; unknown types fall back to 'normal'
PlatformFriction(type) ==
    CASE type = "ice" -> 40
      [] type = "sticky" -> 150
      [] OTHER -> 100

(***************************************************************************)
(* Rectangles                                                              *)
(***************************************************************************)
\* pygame.Rect.colliderect: open-interval overlap on both axes
CollideRect(ax, ay, aw, ah, bx, by, bw, bh) ==
    /\ ax < bx + bw
    /\ ax + aw > bx
    /\ ay < by + bh
    /\ ay + ah > by

\* the player's rect against any record with x, y, w, h
PlayerCollides(p, r) ==
    CollideRect(p.x, p.y, PLAYER_WIDTH, PLAYER_HEIGHT, r.x, r.y, r.w, r.h)

(***************************************************************************)
(* Player                                                                  *)
(***************************************************************************)
\* Player.__init__
NewPlayer(x0, y0) ==
    [ x |-> x0, y |-> y0, vel_x |-> 0, vel_y |-> 0,
      on_ground |-> FALSE, on_wall |-> 0, facing |-> 1,
      double_jump_available |-> TRUE, jump_held |-> FALSE,
      coyote_timer |-> 0, jump_buffer_timer |-> 0,
      dashing |-> FALSE, dash_timer |-> 0, dash_cooldown_timer |-> 0,
      dash_direction |-> 0,
      wall_sliding |-> FALSE, wall_jump_timer |-> 0,
      squash_stretch |-> SQUASH_NORMAL,
      landed_this_frame |-> FALSE, jumped_this_frame |-> FALSE,
      health |-> PLAYER_MAX_HEALTH, invincible |-> FALSE,
      invincibility_timer |-> 0, damaged_this_frame |-> FALSE,
      coins |-> 0, score |-> 0,
      powered_up |-> FALSE, powerup_timer |-> 0,
      current_platform |-> 0, last_ground_y |-> y0 ]

\* attempt_jump with the ground/coyote jump tried before the wall jump
AttemptJumpGroundFirst(p) ==
    IF p.on_ground \/ p.coyote_timer > 0 THEN
        [p EXCEPT !.vel_y = PLAYER_JUMP_STRENGTH,
                  !.on_ground = FALSE,
                  !.coyote_timer = 0,
                  !.jumped_this_frame = TRUE]
    ELSE IF p.on_wall # 0 /\ ~p.on_ground THEN
        [p EXCEPT !.vel_y = PLAYER_WALL_JUMP_Y,
                  !.vel_x = p.on_wall * (-PLAYER_WALL_JUMP_X),
                  !.double_jump_available = TRUE,
                  !.wall_jump_timer = WALL_JUMP_LOCKOUT,
                  !.jumped_this_frame = TRUE]
    ELSE IF p.double_jump_available THEN
        [p EXCEPT !.vel_y = PLAYER_DOUBLE_JUMP_STRENGTH,
                  !.double_jump_available = FALSE,
                  !.jumped_this_frame = TRUE]
    ELSE p

\* attempt_jump whose ground and coyote jump leaves the coyote timer running
AttemptJumpKeepCoyote(p) ==
    IF p.on_wall # 0 /\ ~p.on_ground THEN
        [p EXCEPT !.vel_y = PLAYER_WALL_JUMP_Y,
                  !.vel_x = p.on_wall * (-PLAYER_WALL_JUMP_X),
                  !.double_jump_available = TRUE,
                  !.wall_jump_timer = WALL_JUMP_LOCKOUT,
                  !.jumped_this_frame = TRUE]
    ELSE IF p.on_ground \/ p.coyote_timer > 0 THEN
        [p EXCEPT !.vel_y = PLAYER_JUMP_STRENGTH,
                  !.on_ground = FALSE,
                  !.jumped_this_frame = TRUE]
    ELSE IF p.double_jump_available THEN
        [p EXCEPT !.vel_y = PLAYER_DOUBLE_JUMP_STRENGTH,
                  !.double_jump_available = FALSE,
                  !.jumped_this_frame = TRUE]
    ELSE p

\* Player.attempt_jump
AttemptJump(p) ==
    IF p.on_wall # 0 /\ ~p.on_ground THEN
        [p EXCEPT !.vel_y = PLAYER_WALL_JUMP_Y,
                  !.vel_x = p.on_wall * (-PLAYER_WALL_JUMP_X),
                  !.double_jump_available = TRUE,
                  !.wall_jump_timer = WALL_JUMP_LOCKOUT,
                  !.jumped_this_frame = TRUE]
    ELSE IF p.on_ground \/ p.coyote_timer > 0 THEN
        [p EXCEPT !.vel_y = PLAYER_JUMP_STRENGTH,
                  !.on_ground = FALSE,
                  !.coyote_timer = 0,
                  !.jumped_this_frame = TRUE]
    ELSE IF p.double_jump_available THEN
        [p EXCEPT !.vel_y = PLAYER_DOUBLE_JUMP_STRENGTH,
                  !.double_jump_available = FALSE,
                  !.jumped_this_frame = TRUE]
    ELSE p

\* Player.start_dash
StartDash(p) ==
    [p EXCEPT !.dashing = TRUE,
              !.dash_timer = PLAYER_DASH_DURATION,
              !.dash_cooldown_timer = PLAYER_DASH_COOLDOWN,
              !.dash_direction = p.facing,
              !.vel_y = 0,
              !.invincible = TRUE]

\* take_damage that re-arms the countdown on every call
TakeDamageRearming(p, amount) ==
    IF p.invincible THEN [p EXCEPT !.invincibility_timer = PLAYER_INVINCIBILITY_FRAMES]
    ELSE IF p.health - amount > 0 THEN
        [p EXCEPT !.health = p.health - amount,
                  !.invincible = TRUE,
                  !.invincibility_timer = PLAYER_INVINCIBILITY_FRAMES]
    ELSE [p EXCEPT !.health = 0]

\* Player.take_damage
TakeDamage(p, amount) ==
    IF p.invincible THEN p
    ELSE IF p.health - amount > 0 THEN
        [p EXCEPT !.health = p.health - amount,
                  !.invincible = TRUE,
                  !.invincibility_timer = PLAYER_INVINCIBILITY_FRAMES]
    ELSE [p EXCEPT !.health = 0]

\* heal without the cap
HealUncapped(p, amount) ==
    [p EXCEPT !.health = p.health + amount]

\* Player.heal
Heal(p, amount) ==
    [p EXCEPT !.health = Min(p.health + amount, PLAYER_MAX_HEALTH)]

\* Player.reset
PlayerReset(p, x0, y0) ==
    [p EXCEPT !.x = x0, !.y = y0, !.vel_x = 0, !.vel_y = 0,
              !.health = PLAYER_MAX_HEALTH,
              !.invincible = FALSE, !.invincibility_timer = 0]

\* A key snapshot: the four intents handle_input reads
KeySnapshots == [left : BOOLEAN, right : BOOLEAN, jump : BOOLEAN, dash : BOOLEAN]

\* horizontal movement and friction without the clamp of line 85
InputMoveUnclamped(p, keys) ==
    LET v1 == IF keys.left THEN p.vel_x - PLAYER_ACCELERATION ELSE p.vel_x
        f1 == IF keys.left THEN -1 ELSE p.facing
        v2 == IF keys.right THEN v1 + PLAYER_ACCELERATION ELSE v1
        f2 == IF keys.right THEN 1 ELSE f1
        moving == keys.left \/ keys.right
        v3 == IF moving THEN v2 ELSE MulFrac(v2, FRICTION_NUM, FRICTION_DEN)
    IN [p EXCEPT !.vel_x = v3, !.facing = f2]

\* handle_input, lines 68-85: horizontal movement, friction, clamp
InputMove(p, keys) ==
    LET v1 == IF keys.left THEN p.vel_x - PLAYER_ACCELERATION ELSE p.vel_x
        f1 == IF keys.left THEN -1 ELSE p.facing
        v2 == IF keys.right THEN v1 + PLAYER_ACCELERATION ELSE v1
        f2 == IF keys.right THEN 1 ELSE f1
        moving == keys.left \/ keys.right
        v3 == IF moving THEN v2 ELSE MulFrac(v2, FRICTION_NUM, FRICTION_DEN)
    IN [p EXCEPT !.vel_x = Max(-PLAYER_MAX_SPEED, Min(PLAYER_MAX_SPEED, v3)),
                 !.facing = f2]

\* handle_input, lines 88-99: jump edge, buffer, variable jump height
InputJump(p, keys) ==
    IF keys.jump THEN
        LET q == IF ~p.jump_held
                 THEN AttemptJump([p EXCEPT !.jump_buffer_timer = PLAYER_JUMP_BUFFER])
                 ELSE p
        IN [q EXCEPT !.jump_held = TRUE]
    ELSE
        [p EXCEPT !.jump_held = FALSE,
                  !.vel_y = IF p.vel_y < 0 THEN MulFrac(p.vel_y, 1, 2) ELSE p.vel_y]

\* dash input that does not wait for the cooldown
InputDashEager(p, keys) ==
    IF keys.dash /\ ~p.dashing
    THEN StartDash(p) ELSE p

\* handle_input, lines 102-104: dash input
InputDash(p, keys) ==
    IF keys.dash /\ p.dash_cooldown_timer = 0 /\ ~p.dashing
    THEN StartDash(p) ELSE p

\* handle_input without the early return of a dash
HandleInputAlways(p, keys) ==
    InputDash(InputJump(InputMove(p, keys), keys), keys)

\* Player.handle_input
HandleInput(p, keys) ==
    IF p.dashing THEN p
    ELSE InputDash(InputJump(InputMove(p, keys), keys), keys)

(***************************************************************************)
(* Platforms, hazards, collectibles (src/platforms.py)                     *)
(*                                                                         *)
(* A platform is a record; cls is its Python class ("Platform", "Moving",  *)
(* "Falling", "Bouncy", "OneWay") and type its type string.  id is its     *)
(* index in Level.platforms.                                               *)
(***************************************************************************)
\* Platform.__init__ and the subclass constructors
MakePlatform(id, cls, type, x, y, w, h) ==
    [ id |-> id, cls |-> cls, type |-> type,
      x |-> x, y |-> y, w |-> w, h |-> h,
      friction |-> PlatformFriction(type), active |-> TRUE,
      touched |-> FALSE, shake_timer |-> 0, falling |-> FALSE,
      fall_speed |-> 0, original_x |-> x,
      bounce_animation |-> 0 ]

\* MovingPlatform.__init__
MakeMoving(id, type, x, y, w, h, pattern, speed, distance) ==
    MakePlatform(id, "Moving", type, x, y, w, h) @@
    [ start_x |-> x, start_y |-> y, pattern |-> pattern,
      speed |-> speed, distance |-> distance, time |-> 0 ]

\* MovingPlatform.update: the 'square' pattern; a pattern that is none of the
\* four the method knows only counts the time (the three sine patterns are not
\* modelled)
MovingUpdate(pl) ==
    LET t == pl.time + 1
        d == pl.distance
        cycle == (t * pl.speed) % (d * 4)
    IN IF pl.pattern # "square" THEN [pl EXCEPT !.time = t]
       ELSE IF cycle < d THEN
           [pl EXCEPT !.time = t, !.x = pl.start_x + cycle, !.y = pl.start_y]
       ELSE IF cycle < d * 2 THEN
           [pl EXCEPT !.time = t, !.x = pl.start_x + d,
                      !.y = pl.start_y + (cycle - d)]
       ELSE IF cycle < d * 3 THEN
           [pl EXCEPT !.time = t, !.x = pl.start_x + d - (cycle - d * 2),
                      !.y = pl.start_y + d]
       ELSE
           [pl EXCEPT !.time = t, !.x = pl.start_x,
                      !.y = pl.start_y + d - (cycle - d * 3)]

\* MovingPlatform.get_velocity: time += 1, update(), time -= 1; the value
\* returned and the platform as the call leaves it
GetVelocity(pl) ==
    LET u == MovingUpdate([pl EXCEPT !.time = @ + 1])
        after == [u EXCEPT !.time = @ - 1]
    IN [platform |-> after, vel |-> <<after.x - pl.x, after.y - pl.y>>]

\* trigger that re-arms the countdown of a platform that is not falling yet
TriggerRearming(pl) ==
    IF ~pl.falling
    THEN [pl EXCEPT !.touched = TRUE, !.shake_timer = FALL_DELAY]
    ELSE pl

\* FallingPlatform.trigger
Trigger(pl) ==
    IF ~pl.touched /\ ~pl.falling
    THEN [pl EXCEPT !.touched = TRUE, !.shake_timer = FALL_DELAY]
    ELSE pl

\* BouncyPlatform.trigger_bounce
TriggerBounce(pl) == [pl EXCEPT !.bounce_animation = BOUNCE_ANIMATION_FRAMES]

\* Level.get_active_platforms
ActivePlatforms(plats) == SelectSeq(plats, LAMBDA pl : pl.active)

(***************************************************************************)
(* Player.update and its collision passes                                  *)
(***************************************************************************)
\* the timers decremented without the test for zero
UpdateTimersUnguarded(p) ==
    [p EXCEPT
          !.landed_this_frame = FALSE,
          !.jumped_this_frame = FALSE,
          !.damaged_this_frame = FALSE,
          !.coyote_timer = @ - 1,
          !.jump_buffer_timer = @ - 1,
          !.dash_cooldown_timer = @ - 1,
          !.wall_jump_timer = @ - 1,
          !.invincibility_timer = @ - 1,
          !.invincible = IF p.invincibility_timer - 1 = 0 THEN FALSE ELSE @,
          !.powerup_timer = @ - 1,
          !.powered_up = IF p.powerup_timer - 1 = 0 THEN FALSE ELSE @]

\* update, lines 143-163: per-frame flags and timers
UpdateTimers(p) ==
    LET inv == IF p.invincibility_timer > 0 THEN p.invincibility_timer - 1 ELSE 0
        pow == IF p.powerup_timer > 0 THEN p.powerup_timer - 1 ELSE 0
    IN [p EXCEPT
          !.landed_this_frame = FALSE,
          !.jumped_this_frame = FALSE,
          !.damaged_this_frame = FALSE,
          !.coyote_timer = IF @ > 0 THEN @ - 1 ELSE @,
          !.jump_buffer_timer = IF @ > 0 THEN @ - 1 ELSE @,
          !.dash_cooldown_timer = IF @ > 0 THEN @ - 1 ELSE @,
          !.wall_jump_timer = IF @ > 0 THEN @ - 1 ELSE @,
          !.invincibility_timer = inv,
          !.invincible = IF p.invincibility_timer > 0 /\ inv = 0 THEN FALSE ELSE @,
          !.powerup_timer = pow,
          !.powered_up = IF p.powerup_timer > 0 /\ pow = 0 THEN FALSE ELSE @]

\* the dash logic with a dash that ends without clearing the invincible flag
DashLogicKeepsFlag(p) ==
    IF ~p.dashing THEN p
    ELSE IF p.dash_timer - 1 <= 0 THEN
        [p EXCEPT !.dash_timer = p.dash_timer - 1,
                  !.vel_y = 0,
                  !.dashing = FALSE,
                  !.vel_x = p.dash_direction * PLAYER_MAX_SPEED]
    ELSE
        [p EXCEPT !.dash_timer = p.dash_timer - 1,
                  !.vel_x = p.dash_direction * PLAYER_DASH_SPEED,
                  !.vel_y = 0]

\* update, lines 165-173: dash logic
DashLogic(p) ==
    IF ~p.dashing THEN p
    ELSE IF p.dash_timer - 1 <= 0 THEN
        [p EXCEPT !.dash_timer = p.dash_timer - 1,
                  !.vel_y = 0,
                  !.dashing = FALSE,
                  !.invincible = FALSE,
                  !.vel_x = p.dash_direction * PLAYER_MAX_SPEED]
    ELSE
        [p EXCEPT !.dash_timer = p.dash_timer - 1,
                  !.vel_x = p.dash_direction * PLAYER_DASH_SPEED,
                  !.vel_y = 0]

\* update, lines 175-188: gravity, wall slide, terminal velocity
ApplyGravity(p) ==
    IF p.dashing THEN p
    ELSE
        LET vy == p.vel_y + GRAVITY
            slide == p.on_wall # 0 /\ ~p.on_ground /\ vy > 0
            vy2 == IF slide /\ p.wall_jump_timer = 0
                   THEN Min(vy, PLAYER_WALL_SLIDE_SPEED) ELSE vy
        IN [p EXCEPT !.vel_y = Min(vy2, TERMINAL_VELOCITY),
                     !.wall_sliding = IF slide
                                      THEN (IF p.wall_jump_timer = 0 THEN TRUE ELSE @)
                                      ELSE FALSE]

\* handle_horizontal_collisions, the loop body from platform i on
RECURSIVE HorizontalLoop(_, _, _)
HorizontalLoop(p, plats, i) ==
    IF i > Len(plats) THEN p
    ELSE
        LET pl == plats[i] IN
        IF ~pl.active \/ ~PlayerCollides(p, pl) THEN HorizontalLoop(p, plats, i + 1)
        ELSE IF p.vel_x > 0 THEN
            HorizontalLoop(
                [p EXCEPT !.x = pl.x - PLAYER_WIDTH,
                          !.vel_x = 0,
                          !.on_wall = IF ~p.on_ground /\ p.wall_jump_timer = 0
                                      THEN 1 ELSE @],
                plats, i + 1)
        ELSE IF p.vel_x < 0 THEN
            HorizontalLoop(
                [p EXCEPT !.x = pl.x + pl.w,
                          !.vel_x = 0,
                          !.on_wall = IF ~p.on_ground /\ p.wall_jump_timer = 0
                                      THEN -1 ELSE @],
                plats, i + 1)
        ELSE HorizontalLoop(p, plats, i + 1)

\* Player.handle_horizontal_collisions
HandleHorizontalCollisions(p, plats) ==
    HorizontalLoop([p EXCEPT !.on_wall = 0], plats, 1)

\* landing on top of a platform: clamp, ground, friction (lines 284-299)
LandOn(p, pl) ==
    [p EXCEPT !.y = pl.y - PLAYER_HEIGHT,
              !.vel_y = 0,
              !.on_ground = TRUE,
              !.current_platform = pl.id]

\* lines 296-299: platform friction on landing
LandingFriction(p, pl) ==
    [p EXCEPT !.vel_x = MulFrac(p.vel_x, FRICTION_NUM * pl.friction,
                                FRICTION_DEN * 100)]

\* the response to one overlapping platform with one-way platforms treated as solid
VerticalContactSolid(s, pl) ==
    LET p == s.p IN
    IF p.vel_y > 0 THEN
        LET q == LandingFriction(LandOn(p, pl), pl)
            q2 == IF pl.type = "bouncy" THEN [q EXCEPT !.vel_y = BOUNCE_STRENGTH] ELSE q
            l1 == IF pl.type = "bouncy" /\ pl.cls = "Bouncy"
                  THEN [s.level EXCEPT ![pl.id] = TriggerBounce(@)] ELSE s.level
            l2 == IF pl.type = "fall" /\ pl.cls = "Falling"
                  THEN [l1 EXCEPT ![pl.id] = Trigger(@)] ELSE l1
        IN IF pl.type = "bouncy" /\ pl.cls # "Bouncy"
           THEN [s EXCEPT !.p = q, !.raised = TRUE]
           ELSE [s EXCEPT !.p = q2, !.level = l2]
    ELSE IF p.vel_y < 0 THEN
        [s EXCEPT !.p = [p EXCEPT !.y = pl.y + pl.h, !.vel_y = 0]]
    ELSE s

\* handle_vertical_collisions, the response to one overlapping platform.
\* s = [p |-> player, level |-> Level.platforms, raised |-> an exception left
\* the method].  Only BouncyPlatform has the attribute bounce_strength: line 303
\* raises AttributeError on a platform of type 'bouncy' of any other class
VerticalContact(s, pl) ==
    LET p == s.p IN
    IF pl.type = "oneway" THEN
        IF p.vel_y > 0
           /\ (p.y + PLAYER_HEIGHT) * Scale - p.vel_y <= (pl.y + ONEWAY_TOLERANCE) * Scale
        THEN [s EXCEPT !.p = LandOn(p, pl)]
        ELSE s
    ELSE IF p.vel_y > 0 THEN
        LET q == LandingFriction(LandOn(p, pl), pl)
            q2 == IF pl.type = "bouncy" THEN [q EXCEPT !.vel_y = BOUNCE_STRENGTH] ELSE q
            l1 == IF pl.type = "bouncy" /\ pl.cls = "Bouncy"
                  THEN [s.level EXCEPT ![pl.id] = TriggerBounce(@)] ELSE s.level
            l2 == IF pl.type = "fall" /\ pl.cls = "Falling"
                  THEN [l1 EXCEPT ![pl.id] = Trigger(@)] ELSE l1
        IN IF pl.type = "bouncy" /\ pl.cls # "Bouncy"
           THEN [s EXCEPT !.p = q, !.raised = TRUE]
           ELSE [s EXCEPT !.p = q2, !.level = l2]
    ELSE IF p.vel_y < 0 THEN
        [s EXCEPT !.p = [p EXCEPT !.y = pl.y + pl.h, !.vel_y = 0]]
    ELSE s

\* the same loop over every platform of the level, active or not
RECURSIVE VerticalLoopAll(_, _, _)
VerticalLoopAll(s, plats, i) ==
    IF i > Len(s.level) \/ s.raised THEN s
    ELSE
        LET pl == s.level[i] IN
        IF ~PlayerCollides(s.p, pl) THEN VerticalLoopAll(s, plats, i + 1)
        ELSE VerticalLoopAll(VerticalContact(s, pl), plats, i + 1)

\* handle_vertical_collisions, the loop from platform i of the list on
RECURSIVE VerticalLoop(_, _, _)
VerticalLoop(s, plats, i) ==
    IF i > Len(plats) \/ s.raised THEN s
    ELSE
        LET pl == s.level[plats[i].id] IN
        IF ~pl.active \/ ~PlayerCollides(s.p, pl) THEN VerticalLoop(s, plats, i + 1)
        ELSE VerticalLoop(VerticalContact(s, pl), plats, i + 1)

\* Player.handle_vertical_collisions: the loop, then lines 317-322, the player
\* moved by get_velocity() of the moving platform it stands on
HandleVerticalCollisions(s, plats) ==
    LET r == VerticalLoop([s EXCEPT !.p = [s.p EXCEPT !.on_ground = FALSE,
                                                      !.current_platform = 0]],
                          plats, 1)
        cp == r.p.current_platform
    IN IF ~r.raised /\ r.p.on_ground /\ cp # 0 /\ r.level[cp].cls = "Moving"
       THEN LET gv == GetVelocity(r.level[cp])
            IN [r EXCEPT !.level[cp] = gv.platform,
                         !.p.x = @ + gv.vel[1],
                         !.p.y = @ + gv.vel[2]]
       ELSE r

\* update, lines 202-222: landing / jump squash and stretch and its recovery
SquashStretch(p, prev_on_ground, prev_y) ==
    LET landed == ~prev_on_ground /\ p.on_ground /\ Abs(prev_y - p.y) > 2
        s1 == IF landed THEN SQUASH_LAND ELSE p.squash_stretch
        s2 == IF p.jumped_this_frame THEN STRETCH_JUMP ELSE s1
        s3 == IF s2 < SQUASH_NORMAL
              THEN Min(s2 + SQUASH_RECOVERY_SPEED, SQUASH_NORMAL)
              ELSE IF s2 > SQUASH_NORMAL
                   THEN Max(s2 - SQUASH_RECOVERY_SPEED, SQUASH_NORMAL)
                   ELSE s2
    IN [p EXCEPT !.landed_this_frame = IF landed THEN TRUE ELSE @,
                 !.last_ground_y = IF landed /\ Abs(p.vel_y) > 5 * Scale THEN p.y ELSE @,
                 !.squash_stretch = s3]

\* coyote time armed one tick longer
CoyoteTimeLonger(p, prev_on_ground) ==
    IF prev_on_ground /\ ~p.on_ground /\ p.vel_y >= 0
    THEN [p EXCEPT !.coyote_timer = PLAYER_COYOTE_TIME + 1] ELSE p

\* update, lines 224-226: coyote time
CoyoteTime(p, prev_on_ground) ==
    IF prev_on_ground /\ ~p.on_ground /\ p.vel_y >= 0
    THEN [p EXCEPT !.coyote_timer = PLAYER_COYOTE_TIME] ELSE p

\* update, lines 228-231: jump buffering
JumpBuffer(p) ==
    IF p.on_ground /\ p.jump_buffer_timer > 0
    THEN [AttemptJump(p) EXCEPT !.jump_buffer_timer = 0] ELSE p

\* update, lines 233-235: double jump refresh
DoubleJumpRefresh(p) ==
    IF p.on_ground \/ p.on_wall # 0
    THEN [p EXCEPT !.double_jump_available = TRUE] ELSE p

\* Player.check_hazards
CheckHazards(p, hazards) ==
    IF p.invincible THEN p
    ELSE IF \E i \in 1..Len(hazards) : PlayerCollides(p, hazards[i])
         THEN [TakeDamage(p, 1) EXCEPT !.damaged_this_frame = TRUE]
         ELSE p

\* Player.check_collectibles, the loop from collectible i on.
\* c = [p |-> player, items |-> Level.collectibles]
RECURSIVE CollectLoop(_, _)
CollectLoop(c, i) ==
    IF i > Len(c.items) THEN c
    ELSE
        LET it == c.items[i] IN
        IF it.collected \/ ~PlayerCollides(c.p, it) THEN CollectLoop(c, i + 1)
        ELSE
            LET q == IF it.type = "coin"
                     THEN [c.p EXCEPT !.coins = @ + 1, !.score = @ + it.value]
                     ELSE IF it.type = "powerup"
                          THEN [c.p EXCEPT !.powered_up = TRUE,
                                           !.powerup_timer = POWERUP_DURATION]
                          ELSE c.p
            IN CollectLoop([p |-> q,
                            items |-> [c.items EXCEPT ![i].collected = TRUE]], i + 1)

\* Player.check_collectibles
CheckCollectibles(p, items) == CollectLoop([p |-> p, items |-> items], 1)

\* update, lines 243-245: fall death
FallDeath(p) ==
    IF p.y > SCREEN_HEIGHT + FALL_DEATH_MARGIN
    THEN TakeDamage(p, FALL_DEATH_DAMAGE) ELSE p

\* update, lines 143-198: timers, dash, gravity, the horizontal pass and the
\* vertical displacement.  w = [p |-> player, level |-> Level.platforms]
Displaced(w) ==
    LET plats == ActivePlatforms(w.level)
        p1 == ApplyGravity(DashLogic(UpdateTimers(w.p)))
        p2 == HandleHorizontalCollisions([p1 EXCEPT !.x = PxAdd(p1.x, p1.vel_x)], plats)
    IN [p2 EXCEPT !.y = PxAdd(p2.y, p2.vel_y)]

\* update, lines 143-200: the above, then the vertical pass
Integrate(w) ==
    HandleVerticalCollisions([p |-> Displaced(w), level |-> w.level,
                              raised |-> FALSE],
                             ActivePlatforms(w.level))

\* update, lines 202-235: what the ability state machine does with the contacts
ReactToContacts(p, prev_on_ground, prev_y) ==
    DoubleJumpRefresh(JumpBuffer(CoyoteTime(
        SquashStretch(p, prev_on_ground, prev_y), prev_on_ground)))

\* Player.update.  g = [p, level, hazards, items]; an exception raised in the
\* vertical pass leaves the player as the pass had it
Update(g) ==
    LET moved == Integrate([p |-> g.p, level |-> g.level])
        p4 == ReactToContacts(moved.p, g.p.on_ground, g.p.y)
        p5 == CheckHazards(p4, g.hazards)
        col == CheckCollectibles(p5, g.items)
    IN IF moved.raised
       THEN [g EXCEPT !.p = moved.p, !.level = moved.level]
       ELSE [g EXCEPT !.p = FallDeath(col.p),
                      !.level = moved.level,
                      !.items = col.items]

(***************************************************************************)
(* Enemies (src/enemy.py)                                                  *)
(***************************************************************************)
\* Enemy.__init__ (ENEMY_TYPES gives 32x32 for 'patrol')
MakeEnemy(x, y, w, h) ==
    [ type |-> "patrol", x |-> x, y |-> y, w |-> w, h |-> h,
      alive |-> TRUE, health |-> 1, stunned |-> FALSE, stun_timer |-> 0 ]

\* ShooterEnemy.__init__ (ENEMY_TYPES gives 32x32 for 'shooter').  A projectile
\* is [x, y, vel_x, vel_y, lifetime], position and velocity in units of 1/Scale
MakeShooter(x, y) ==
    [ type |-> "shooter", x |-> x, y |-> y, w |-> 32, h |-> 32,
      alive |-> TRUE, health |-> 1, stunned |-> FALSE, stun_timer |-> 0,
      shoot_cooldown |-> 0, projectiles |-> << >> ]

\* Enemy.update (base class): the stun countdown
EnemyUpdate(e) ==
    IF e.stun_timer > 0
    THEN [e EXCEPT !.stun_timer = e.stun_timer - 1,
                   !.stunned = IF e.stun_timer - 1 = 0 THEN FALSE ELSE @]
    ELSE e

\* Enemy.take_damage
EnemyTakeDamage(e, amount) ==
    IF e.health - amount <= 0
    THEN [e EXCEPT !.health = e.health - amount, !.alive = FALSE]
    ELSE [e EXCEPT !.health = e.health - amount, !.stunned = TRUE, !.stun_timer = 20]

\* Enemy.check_stomp: the value it returns
CheckStomp(e, p) ==
    /\ e.alive /\ ~e.stunned
    /\ p.vel_y > 0
    /\ p.y + PLAYER_HEIGHT <= e.y + STOMP_TOLERANCE
    /\ PlayerCollides(p, e)

\* Enemy.check_collision
CheckCollision(e, p) ==
    /\ e.alive /\ ~e.stunned
    /\ PlayerCollides(p, e)
    /\ ~p.dashing

\* ShooterEnemy.shoot: a projectile from the shooter's centre towards the
\* player's centre, the direction normalised with the square root truncated to
\* 1/Scale (exact when the player is straight above, below or beside)
Shoot(cx, cy, dx, dy) ==
    LET dist == CHOOSE r \in 0..((Abs(dx) + Abs(dy)) * Scale) :
                    /\ r * r <= (dx * dx + dy * dy) * Scale * Scale
                    /\ (r + 1) * (r + 1) > (dx * dx + dy * dy) * Scale * Scale
    IN [x |-> cx * Scale, y |-> cy * Scale,
        vel_x |-> TruncDiv(dx * ENEMY_PROJECTILE_SPEED * Scale * Scale, dist),
        vel_y |-> TruncDiv(dy * ENEMY_PROJECTILE_SPEED * Scale * Scale, dist),
        lifetime |-> PROJECTILE_LIFETIME]

\* Projectile.update for every projectile, the expired ones removed
Flight(prs) ==
    SelectSeq([k \in 1..Len(prs) |->
                  [prs[k] EXCEPT !.x = @ + prs[k].vel_x, !.y = @ + prs[k].vel_y,
                                 !.lifetime = @ - 1]],
              LAMBDA pr : pr.lifetime > 0)

\* ShooterEnemy.update after the stun countdown, for a shooter alive and not
\* stunned: the cooldown, a shot at a player in range, the projectiles' flight
ShooterAct(e, cd, cx, cy, dx, dy) ==
    IF dx * dx + dy * dy < ENEMY_CHASE_RANGE * ENEMY_CHASE_RANGE /\ cd = 0
    THEN [e EXCEPT !.shoot_cooldown = ENEMY_SHOOT_COOLDOWN,
                   !.projectiles = Flight(IF dx # 0 \/ dy # 0
                                          THEN Append(@, Shoot(cx, cy, dx, dy))
                                          ELSE @)]
    ELSE [e EXCEPT !.shoot_cooldown = cd, !.projectiles = Flight(@)]

\* ShooterEnemy.update
ShooterUpdate(e, p) ==
    IF ~EnemyUpdate(e).alive \/ EnemyUpdate(e).stunned THEN EnemyUpdate(e)
    ELSE ShooterAct(EnemyUpdate(e),
                    IF e.shoot_cooldown > 0 THEN e.shoot_cooldown - 1 ELSE 0,
                    e.x + e.w \div 2, e.y + e.h \div 2,
                    (p.x + PLAYER_WIDTH \div 2) - (e.x + e.w \div 2),
                    (p.y + PLAYER_HEIGHT \div 2) - (e.y + e.h \div 2))

\* Projectile.check_collision: within radius + PLAYER_WIDTH / 2 of the centre
\* of a player that is neither invincible nor dashing
ProjectileCollides(pr, p) ==
    /\ ~p.invincible /\ ~p.dashing
    /\ (pr.x - (p.x + PLAYER_WIDTH \div 2) * Scale)
           * (pr.x - (p.x + PLAYER_WIDTH \div 2) * Scale)
       + (pr.y - (p.y + PLAYER_HEIGHT \div 2) * Scale)
           * (pr.y - (p.y + PLAYER_HEIGHT \div 2) * Scale)
       < (PROJECTILE_RADIUS * Scale + (PLAYER_WIDTH * Scale) \div 2)
           * (PROJECTILE_RADIUS * Scale + (PLAYER_WIDTH * Scale) \div 2)

\* ShooterEnemy.check_projectile_hit, the loop from projectile k on: the first
\* projectile that hits is removed
RECURSIVE CheckProjectileHit(_, _, _)
CheckProjectileHit(e, p, k) ==
    IF k > Len(e.projectiles) THEN [e |-> e, hit |-> FALSE]
    ELSE IF ProjectileCollides(e.projectiles[k], p)
    THEN [e |-> [e EXCEPT !.projectiles =
                    SubSeq(@, 1, k - 1) \o SubSeq(@, k + 1, Len(@))],
          hit |-> TRUE]
    ELSE CheckProjectileHit(e, p, k + 1)

\* the enemy loop's body after enemy.update, lines 228-241: stomp, else contact
\* damage.  The result is [p |-> player, e |-> enemy]
EnemyContact(e, p) ==
    IF CheckStomp(e, p) THEN
        [p |-> [p EXCEPT !.vel_y = STOMP_BOUNCE,
                         !.score = IF ~EnemyTakeDamage(e, 1).alive
                                   THEN @ + STOMP_SCORE ELSE @],
         e |-> EnemyTakeDamage(e, 1)]
    ELSE IF CheckCollision(e, p) THEN [p |-> TakeDamage(p, 1), e |-> e]
    ELSE [p |-> p, e |-> e]

\* lines 243-246: the projectiles of a shooter, dead or alive
ProjectileContact(r) ==
    IF r.e.type # "shooter" THEN r
    ELSE IF CheckProjectileHit(r.e, r.p, 1).hit
    THEN [p |-> TakeDamage(r.p, 1), e |-> CheckProjectileHit(r.e, r.p, 1).e]
    ELSE r

\* Game.update_playing, lines 224-246: one pass of the enemy loop from enemy i on.
\* m = [p |-> player, enemies |-> Game.enemies]
RECURSIVE EnemyLoop(_, _)
EnemyLoop(m, i) ==
    IF i > Len(m.enemies) THEN m
    ELSE
        LET r == ProjectileContact(EnemyContact(
                     IF m.enemies[i].type = "shooter"
                     THEN ShooterUpdate(m.enemies[i], m.p)
                     ELSE EnemyUpdate(m.enemies[i]),
                     m.p))
        IN EnemyLoop([p |-> r.p, enemies |-> [m.enemies EXCEPT ![i] = r.e]], i + 1)

(***************************************************************************)
(* Level (src/level.py)                                                    *)
(***************************************************************************)
\* FallingPlatform.update deactivating the platform at the screen's lower edge
FallingUpdateShallow(pl) ==
    LET shaking == pl.shake_timer > 0
        st == IF shaking THEN pl.shake_timer - 1 ELSE pl.shake_timer
        x1 == IF ~shaking THEN pl.x
              ELSE IF st = 0 THEN pl.original_x
              ELSE IF st % 4 < 2 THEN pl.original_x + 2 ELSE pl.original_x - 2
        falling == pl.falling \/ (shaking /\ st = 0)
        speed == IF falling THEN pl.fall_speed + GRAVITY ELSE pl.fall_speed
        y1 == IF falling THEN PxAdd(pl.y, speed) ELSE pl.y
    IN [pl EXCEPT !.shake_timer = st, !.x = x1, !.falling = falling,
                  !.fall_speed = speed, !.y = y1,
                  !.active = IF falling /\ y1 > SCREEN_HEIGHT THEN FALSE ELSE @]

\* FallingPlatform.update starting the fall on the update after the countdown ends
FallingUpdateLate(pl) ==
    LET shaking == pl.shake_timer > 0
        st == IF shaking THEN pl.shake_timer - 1 ELSE pl.shake_timer
        x1 == IF ~shaking THEN pl.x
              ELSE IF st = 0 THEN pl.original_x
              ELSE IF st % 4 < 2 THEN pl.original_x + 2 ELSE pl.original_x - 2
        falling == pl.falling \/ (pl.touched /\ ~shaking)
        speed == IF falling THEN pl.fall_speed + GRAVITY ELSE pl.fall_speed
        y1 == IF falling THEN PxAdd(pl.y, speed) ELSE pl.y
    IN [pl EXCEPT !.shake_timer = st, !.x = x1, !.falling = falling,
                  !.fall_speed = speed, !.y = y1,
                  !.active = IF falling /\ y1 > SCREEN_HEIGHT + FALL_DEATH_MARGIN
                             THEN FALSE ELSE @]

\* FallingPlatform.update that never deactivates the platform
FallingUpdateEndless(pl) ==
    LET shaking == pl.shake_timer > 0
        st == IF shaking THEN pl.shake_timer - 1 ELSE pl.shake_timer
        x1 == IF ~shaking THEN pl.x
              ELSE IF st = 0 THEN pl.original_x
              ELSE IF st % 4 < 2 THEN pl.original_x + 2 ELSE pl.original_x - 2
        falling == pl.falling \/ (shaking /\ st = 0)
        speed == IF falling THEN pl.fall_speed + GRAVITY ELSE pl.fall_speed
        y1 == IF falling THEN PxAdd(pl.y, speed) ELSE pl.y
    IN [pl EXCEPT !.shake_timer = st, !.x = x1, !.falling = falling,
                  !.fall_speed = speed, !.y = y1]

\* FallingPlatform.update
FallingUpdate(pl) ==
    LET shaking == pl.shake_timer > 0
        st == IF shaking THEN pl.shake_timer - 1 ELSE pl.shake_timer
        x1 == IF ~shaking THEN pl.x
              ELSE IF st = 0 THEN pl.original_x
              ELSE IF st % 4 < 2 THEN pl.original_x + 2 ELSE pl.original_x - 2
        falling == pl.falling \/ (shaking /\ st = 0)
        speed == IF falling THEN pl.fall_speed + GRAVITY ELSE pl.fall_speed
        y1 == IF falling THEN PxAdd(pl.y, speed) ELSE pl.y
    IN [pl EXCEPT !.shake_timer = st, !.x = x1, !.falling = falling,
                  !.fall_speed = speed, !.y = y1,
                  !.active = IF falling /\ y1 > SCREEN_HEIGHT + FALL_DEATH_MARGIN
                             THEN FALSE ELSE @]

\* BouncyPlatform.update
BouncyUpdate(pl) ==
    IF pl.bounce_animation > 0
    THEN [pl EXCEPT !.bounce_animation = @ - 1] ELSE pl

\* platform.update(), dispatched on the platform's class
PlatformUpdate(pl) ==
    CASE pl.cls = "Falling" -> FallingUpdate(pl)
      [] pl.cls = "Bouncy" -> BouncyUpdate(pl)
      [] pl.cls = "Moving" -> MovingUpdate(pl)
      [] OTHER -> pl

\* Level.reset, the body of the platform loop
ResetPlatform(pl) ==
    IF pl.cls = "Falling"
    THEN [pl EXCEPT !.active = TRUE, !.touched = FALSE, !.falling = FALSE,
                    !.shake_timer = 0, !.fall_speed = 0, !.y = pl.original_x]
    ELSE [pl EXCEPT !.active = TRUE]

\* Level.reset
LevelReset(plats) == [i \in 1..Len(plats) |-> ResetPlatform(plats[i])]

\* Level.get_spawn_point.  lv = a level with its spawn and checkpoint
GetSpawnPoint(lv) ==
    IF lv.checkpoint.present /\ lv.checkpoint.activated
    THEN lv.checkpoint.position ELSE lv.spawn

\* Level.draw: the platforms it draws
DrawnPlatforms(plats) == {i \in 1..Len(plats) : plats[i].active}

(***************************************************************************)
(* State                                                                   *)
(***************************************************************************)
VARIABLES
    player,     \* Game.player
    level,      \* Level.platforms
    hazards,    \* Level.hazards
    items,      \* Level.collectibles
    enemies,    \* Game.enemies
    goal,       \* Level.goal rect
    completed,  \* Level.completed
    checkpoint, \* Level.checkpoint
    state,      \* Game.state
    pc,         \* position inside Game.update_playing
    keys,       \* the key snapshot handed to the last handle_input
    pre,        \* observer: the player as the last handle_input found it
    contact,    \* observer: what the last update's integration and collision passes did
    left_at,    \* observer: updates completed since the player walked off the ground
    buf_age,    \* observer: updates completed since a jump press that could not jump
    dash_ticks, \* observer: updates of the current dash that moved at dash speed
    cut_run,    \* observer: the previous handle_input saw jump released while ascending
    last_damage,\* observer: the amount of the take_damage call made by the last step, or 0
    tick        \* observer: ticks started, in the specifications that bound them

vars == <<player, level, hazards, items, enemies, goal, completed, checkpoint, state,
          pc, keys,
          pre, contact, left_at, buf_age, dash_ticks, cut_run, last_damage, tick>>

world == <<level, hazards, items, enemies, goal, completed, checkpoint>>

NoKeys == [left |-> FALSE, right |-> FALSE, jump |-> FALSE, dash |-> FALSE]
NoPlayer == [none |-> TRUE]
\* Level.__init__: checkpoint = None
NoCheckpoint ==
    [present |-> FALSE, x |-> 0, y |-> 0, w |-> 0, h |-> 0,
     activated |-> FALSE, position |-> <<0, 0>>]
NoContact == [ground |-> FALSE, wall |-> 0, vx |-> 0, vy |-> 0, dash_end |-> FALSE]
NotCounting == 0 - 1

\* bounds of the model
MaxTicks == 4
MaxDepth == 960

(***************************************************************************)
(* Levels.  A level is what Level.load_from_json builds from a level file: *)
(* spawn point, platforms, hazards, collectibles, goal; plus the enemies   *)
(* the game places in it.                                                  *)
(***************************************************************************)
\* Hazard.__init__
MakeHazard(x, y, w, h) == [x |-> x, y |-> y, w |-> w, h |-> h]

\* Collectible.__init__
MakeCollectible(type, x, y) ==
    [ type |-> type, x |-> x, y |-> y,
      w |-> IF type = "coin" THEN COIN_SIZE ELSE POWERUP_SIZE,
      h |-> IF type = "coin" THEN COIN_SIZE ELSE POWERUP_SIZE,
      value |-> IF type = "coin" THEN COIN_VALUE ELSE 0,
      collected |-> FALSE ]

\* A walled pit: floor and two walls; the player spawns beside the left wall.
\* hz and en are the hazards and the enemies placed in it.
Arena(hz, en) ==
    [ spawn |-> <<21, 250>>,
      platforms |-> << MakePlatform(1, "Platform", "normal", 0, 300, 200, 40),
                       MakePlatform(2, "Platform", "normal", 0, -400, 20, 700),
                       MakePlatform(3, "Platform", "normal", 180, -400, 20, 700) >>,
      hazards |-> hz,
      items |-> << >>,
      enemies |-> en,
      goal |-> [x |-> 500, y |-> 0, w |-> 50, h |-> 50],
      checkpoint |-> NoCheckpoint ]

\* spikes in the right corner of the arena
ArenaSpikes == Arena(<< MakeHazard(150, 276, 30, 24) >>, << >>)

\* spikes under the spawn point of the arena
ArenaThorns == Arena(<< MakeHazard(20, 276, 60, 24) >>, << >>)

\* an enemy in the right corner of the arena
ArenaEnemy == Arena(<< >>, << MakeEnemy(148, 268, 32, 32) >>)

\* A ledge over a shallow pit under a low ceiling, walled on both sides; the pit
\* leaves the player room pixels to move in.
LedgeLevel(room) ==
    [ spawn |-> <<58, 250>>,
      platforms |-> << MakePlatform(1, "Platform", "normal", 0, 300, 64, 100),
                       MakePlatform(2, "Platform", "normal", 64, 330, 52 + room, 40),
                       MakePlatform(3, "Platform", "normal", 0, 0, 20, 300),
                       MakePlatform(4, "Platform", "normal", 96 + room, 0, 20, 330),
                       MakePlatform(5, "Platform", "normal", 0, 210, 116 + room, 20) >>,
      hazards |-> << >>,
      items |-> << >>,
      enemies |-> << >>,
      goal |-> [x |-> 500, y |-> 0, w |-> 50, h |-> 50],
      checkpoint |-> NoCheckpoint ]

Ledge == LedgeLevel(44)
Shaft == LedgeLevel(8)

\* A level with no hazards, collectibles or enemies
Bare(sp, plats) ==
    [ spawn |-> sp, platforms |-> plats,
      hazards |-> << >>, items |-> << >>, enemies |-> << >>,
      goal |-> [x |-> 500, y |-> 0, w |-> 50, h |-> 50],
      checkpoint |-> NoCheckpoint ]

\* A falling platform over a floor near the bottom of the world; the player
\* spawns above the platform.
Drop ==
    Bare(<<76, 820>>,
         << MakePlatform(1, "Platform", "normal", 0, 948, 200, 40),
            MakePlatform(2, "Falling", "fall", 60, 880, 64, 20) >>)

\* A falling platform high above the player, who spawns on a floor near the
\* bottom of the world.
Overhang ==
    Bare(<<76, 890>>,
         << MakePlatform(1, "Platform", "normal", 0, 948, 180, 40),
            MakePlatform(2, "Falling", "fall", 60, 494, 64, 20) >>)

\* A bouncy floor under a ceiling
Spring ==
    Bare(<<84, 240>>,
         << MakePlatform(1, "Bouncy", "bouncy", 0, 300, 200, 40),
            MakePlatform(2, "Platform", "normal", 0, 190, 200, 20) >>)

\* A one-way platform over the floor of a walled room, under a low ceiling; the
\* player spawns under the platform.
Gate ==
    Bare(<<80, 250>>,
         << MakePlatform(1, "Platform", "normal", 0, 300, 180, 40),
            MakePlatform(2, "Platform", "normal", 0, 0, 20, 300),
            MakePlatform(3, "Platform", "normal", 160, 0, 20, 300),
            MakePlatform(4, "OneWay", "oneway", 70, 230, 60, 10),
            MakePlatform(5, "Platform", "normal", 0, 160, 180, 20) >>)

\* A floor that ends over the void, with spikes before its edge and a
\* checkpoint on the way
Pit ==
    [ Bare(<<40, 800>>,
           << MakePlatform(1, "Platform", "normal", 0, 850, 120, 40) >>)
      EXCEPT !.hazards = << MakeHazard(90, 826, 30, 24) >>,
             !.checkpoint = [present |-> TRUE, x |-> 80, y |-> 790, w |-> 20, h |-> 60,
                             activated |-> FALSE, position |-> <<50, 800>>] ]

\* Game.load_level: a fresh level and a player at its spawn point
InitLevel(lv) ==
    /\ player = NewPlayer(lv.spawn[1], lv.spawn[2])
    /\ level = lv.platforms
    /\ hazards = lv.hazards
    /\ items = lv.items
    /\ enemies = lv.enemies
    /\ goal = lv.goal
    /\ checkpoint = lv.checkpoint
    /\ completed = FALSE
    /\ state = "playing"
    /\ pc = "input"
    /\ keys = NoKeys
    /\ pre = NoPlayer
    /\ contact = NoContact
    /\ left_at = NotCounting
    /\ buf_age = NotCounting
    /\ dash_ticks = 0
    /\ cut_run = FALSE
    /\ last_damage = 0
    /\ tick = 0

(***************************************************************************)
(* Game.update_playing, one step per phase of the tick                     *)
(***************************************************************************)
\* the velocity player.update integrates (lines 195, 199)
MoveVelocity(p) == ApplyGravity(DashLogic(UpdateTimers(p)))

\* a jump press that found nothing to do
DeadPress(p, k) ==
    /\ ~p.dashing /\ k.jump /\ ~p.jump_held
    /\ ~p.on_ground /\ p.on_wall = 0 /\ p.coyote_timer = 0
    /\ ~p.double_jump_available

\* main.py 167-170: keys = pygame.key.get_pressed(); player.handle_input(keys)
InputCore(K) ==
    /\ state = "playing" /\ pc = "input"
    /\ \E k \in K :
        /\ keys' = k
        /\ player' = HandleInput(player, k)
        /\ buf_age' = IF DeadPress(player, k) THEN 0
                      ELSE IF ~player.dashing /\ k.jump /\ ~player.jump_held
                           THEN NotCounting ELSE buf_age
    /\ pre' = player
    /\ dash_ticks' = IF player.dashing THEN dash_ticks ELSE 0
    /\ pc' = "update"
    /\ last_damage' = 0
    /\ UNCHANGED <<world, state, contact, left_at, cut_run>>

InputStep(K) == InputCore(K) /\ UNCHANGED tick

\* the same step in a run of at most MaxTicks ticks
TimedInputStep(K) == tick < MaxTicks /\ InputCore(K) /\ tick' = tick + 1

\* main.py 171-175: player.update(active platforms, hazards, collectibles); an
\* exception it raises is caught nowhere and ends the program
UpdateStep ==
    /\ state = "playing" /\ pc = "update"
    /\ LET g == Update([p |-> player, level |-> level,
                        hazards |-> hazards, items |-> items])
           mv == MoveVelocity(player)
           moved == Integrate([p |-> player, level |-> level])
           seen == moved.p
           walked_off == player.on_ground /\ ~seen.on_ground /\ seen.vel_y >= 0
           jumped == player.jumped_this_frame
       IN /\ player' = g.p
          /\ state' = IF moved.raised THEN "crashed" ELSE state
          /\ level' = g.level
          /\ items' = g.items
          /\ contact' = [ground |-> seen.on_ground, wall |-> seen.on_wall,
                         vx |-> mv.vel_x, vy |-> mv.vel_y,
                         dash_end |-> player.dashing /\ ~mv.dashing]
          /\ cut_run' = (~pre.dashing /\ ~keys.jump /\ pre.vel_y < 0)
          /\ left_at' = IF walked_off THEN 0
                        ELSE IF left_at = NotCounting \/ seen.on_ground \/ jumped
                                \/ left_at >= PLAYER_COYOTE_TIME
                             THEN NotCounting
                             ELSE left_at + 1
          /\ buf_age' = IF buf_age = NotCounting \/ buf_age >= PLAYER_JUMP_BUFFER
                           \/ contact.ground
                        THEN NotCounting ELSE buf_age + 1
          /\ dash_ticks' = IF player.dashing
                              /\ mv.vel_x = player.dash_direction * PLAYER_DASH_SPEED
                              /\ mv.vel_y = 0
                           THEN dash_ticks + 1 ELSE dash_ticks
    /\ pre' = NoPlayer
    /\ pc' = "enemies"
    /\ last_damage' = 0
    /\ UNCHANGED <<hazards, enemies, goal, completed, checkpoint, keys, tick>>

\* main.py 223-241: the enemy loop
EnemiesStep ==
    /\ state = "playing" /\ pc = "enemies"
    /\ LET m == EnemyLoop([p |-> player, enemies |-> enemies], 1)
       IN /\ player' = m.p
          /\ enemies' = m.enemies
    /\ pc' = "level"
    /\ last_damage' = 0
    /\ UNCHANGED <<level, hazards, items, goal, completed, checkpoint, state, keys,
                   pre, contact, left_at, buf_age, dash_ticks, cut_run, tick>>

\* a collaborator reporting damage through the player's interface, at the point of
\* the tick where the game loop does (main.py 241, 246): player.take_damage(n)
DamageCall(n) ==
    /\ state = "playing" /\ pc = "enemies"
    /\ player' = TakeDamage(player, n)
    /\ last_damage' = n
    /\ UNCHANGED <<world, state, pc, keys, pre, contact, left_at, buf_age,
                   dash_ticks, cut_run, tick>>

\* the end of the tick with the death check before the win check
LevelStepWinLast ==
    /\ state = "playing" /\ pc = "level"
    /\ level' = [i \in 1..Len(level) |-> PlatformUpdate(level[i])]
    /\ checkpoint' = IF checkpoint.present /\ ~checkpoint.activated
                        /\ PlayerCollides(player, checkpoint)
                     THEN [checkpoint EXCEPT !.activated = TRUE] ELSE checkpoint
    /\ LET done == completed \/ PlayerCollides(player, goal)
       IN /\ completed' = done
          /\ state' = IF done THEN "victory"
                      ELSE IF player.health <= 0 THEN "game_over" ELSE state
    /\ pc' = "input"
    /\ last_damage' = 0
    /\ UNCHANGED <<player, hazards, items, enemies, goal, keys,
                   pre, contact, left_at, buf_age, dash_ticks, cut_run, tick>>

\* main.py 261-280: level.update(player), then the win and death checks
LevelStep ==
    /\ state = "playing" /\ pc = "level"
    /\ level' = [i \in 1..Len(level) |-> PlatformUpdate(level[i])]
    /\ checkpoint' = IF checkpoint.present /\ ~checkpoint.activated
                        /\ PlayerCollides(player, checkpoint)
                     THEN [checkpoint EXCEPT !.activated = TRUE] ELSE checkpoint
    /\ LET done == completed \/ PlayerCollides(player, goal)
       IN /\ completed' = done
          /\ state' = IF player.health <= 0 THEN "game_over"
                      ELSE IF done THEN "victory" ELSE state
    /\ pc' = "input"
    /\ last_damage' = 0
    /\ UNCHANGED <<player, hazards, items, enemies, goal, keys,
                   pre, contact, left_at, buf_age, dash_ticks, cut_run, tick>>

\* FallingPlatform.trigger called on platform i between two ticks
TriggerCall(i) ==
    /\ state = "playing" /\ pc = "input"
    /\ level[i].cls = "Falling"
    /\ level' = [level EXCEPT ![i] = Trigger(@)]
    /\ UNCHANGED <<player, hazards, items, enemies, goal, completed, checkpoint,
                   state, pc, keys,
                   pre, contact, left_at, buf_age, dash_ticks, cut_run,
                   last_damage, tick>>

\* Level.reset called between two ticks
ResetCall ==
    /\ state = "playing" /\ pc = "input"
    /\ level' = LevelReset(level)
    /\ completed' = FALSE
    /\ UNCHANGED <<player, hazards, items, enemies, goal, checkpoint, state, pc, keys,
                   pre, contact, left_at, buf_age, dash_ticks, cut_run,
                   last_damage, tick>>

\* player.heal(n) called where the game loop reports damage
HealCall(n) ==
    /\ state = "playing" /\ pc = "enemies"
    /\ player' = Heal(player, n)
    /\ last_damage' = 0
    /\ UNCHANGED <<world, state, pc, keys, pre, contact, left_at, buf_age,
                   dash_ticks, cut_run, tick>>

\* player.reset(spawn) called at the same point
PlayerResetCall(sp) ==
    /\ state = "playing" /\ pc = "enemies"
    /\ player' = PlayerReset(player, sp[1], sp[2])
    /\ last_damage' = 0
    /\ UNCHANGED <<world, state, pc, keys, pre, contact, left_at, buf_age,
                   dash_ticks, cut_run, tick>>

\* handle_events: Escape or P pauses the game and resumes it
PauseKey ==
    /\ state \in {"playing", "paused"} /\ pc = "input"
    /\ state' = IF state = "playing" THEN "paused" ELSE "playing"
    /\ UNCHANGED <<player, world, pc, keys, pre, contact, left_at, buf_age,
                   dash_ticks, cut_run, last_damage, tick>>

\* handle_events: R while paused or after game over, Game.restart_level.
\* load_level builds the level lv anew and puts a new player at its
\* get_spawn_point()
RestartLevel(lv) ==
    /\ state \in {"paused", "game_over"}
    /\ player' = NewPlayer(GetSpawnPoint(lv)[1], GetSpawnPoint(lv)[2])
    /\ level' = lv.platforms
    /\ hazards' = lv.hazards
    /\ items' = lv.items
    /\ enemies' = lv.enemies
    /\ goal' = lv.goal
    /\ checkpoint' = lv.checkpoint
    /\ completed' = FALSE
    /\ state' = "playing"
    /\ pc' = "input"
    /\ pre' = NoPlayer
    /\ contact' = NoContact
    /\ left_at' = NotCounting
    /\ buf_age' = NotCounting
    /\ dash_ticks' = 0
    /\ cut_run' = FALSE
    /\ last_damage' = 0
    /\ UNCHANGED <<keys, tick>>

\* handle_input while no platform has fallen deeper than MaxDepth
BoundedInputStep(K) ==
    /\ \A i \in 1..Len(level) : level[i].y <= MaxDepth
    /\ InputStep(K)

AllKeys == KeySnapshots
DashKeys == {k \in KeySnapshots : ~k.left /\ ~k.right /\ ~k.jump}
JumpKeys == {k \in KeySnapshots : ~k.left /\ ~k.dash /\ k.right}
DamageAmounts == {1, 2, 3, FALL_DEATH_DAMAGE}

\* the whole game in the arena, every key combination, the first MaxTicks ticks
Init == InitLevel(ArenaSpikes)

Next ==
    \/ TimedInputStep(AllKeys)
    \/ UpdateStep
    \/ EnemiesStep
    \/ LevelStep

Spec == Init /\ [][Next]_vars

\* dashing in the arena: only the dash key is ever pressed
InitDash == InitLevel(ArenaSpikes) \/ InitLevel(ArenaEnemy)

NextDash ==
    \/ InputStep(DashKeys)
    \/ UpdateStep
    \/ EnemiesStep
    \/ LevelStep

SpecDash == InitDash /\ [][NextDash]_vars

\* the same, with collaborators that report damage of any amount
NextDamage ==
    \/ NextDash
    \/ \E n \in DamageAmounts : DamageCall(n)

SpecDamage == InitDash /\ [][NextDamage]_vars

\* the arena with an enemy under the spawn point: the player falls onto it
InitStomp == InitLevel(Arena(<< >>, << MakeEnemy(20, 290, 32, 32) >>))

SpecStomp == InitStomp /\ [][NextDash]_vars

\* jumping on the ledge: the right key is held, the jump key comes and goes
InitLedge == InitLevel(Ledge)

NextJump ==
    \/ InputStep(JumpKeys)
    \/ UpdateStep
    \/ EnemiesStep
    \/ LevelStep

SpecJump == InitLedge /\ [][NextJump]_vars

\* the same keys where the pit is a narrow shaft, 8 or 5 pixels wider than the
\* player: the wall is within reach of a fall
InitShaft == InitLevel(Shaft) \/ InitLevel(LedgeLevel(5))

SpecWall == InitShaft /\ [][NextJump]_vars

\* the falling platforms, and trigger() called from outside; no key is pressed
\* while every platform is active, then the right key comes and goes
InitDrop == InitLevel(Drop) \/ InitLevel(Overhang)

WaitKeys ==
    IF \A i \in 1..Len(level) : level[i].active THEN {NoKeys}
    ELSE {k \in KeySnapshots : ~k.left /\ ~k.jump /\ ~k.dash}

NextFall ==
    \/ BoundedInputStep(WaitKeys)
    \/ UpdateStep
    \/ EnemiesStep
    \/ LevelStep
    \/ \E i \in 1..Len(level) : TriggerCall(i)

SpecFall == InitDrop /\ [][NextFall]_vars

\* Game.update while the state is PLAYING: the loop moves on to the next phase of
\* the tick (the input phase only within the modelled depth)
LoopRuns ==
    /\ state = "playing"
    /\ pc = "input" => \A i \in 1..Len(level) : level[i].y <= MaxDepth
    /\ pc' \in {"input", "update", "enemies", "level"}

\* the same with the game loop running: a phase that can be taken is taken
LiveFall == SpecFall /\ WF_pc(LoopRuns)

\* the same, with Level.reset called from outside too
NextReset ==
    \/ NextFall
    \/ ResetCall

SpecReset == InitDrop /\ [][NextReset]_vars

\* bouncing on the spring: only the jump key is ever pressed
HopKeys == {k \in KeySnapshots : ~k.left /\ ~k.right /\ ~k.dash}

InitSpring == InitLevel(Spring)

NextBounce ==
    \/ InputStep(HopKeys)
    \/ UpdateStep
    \/ EnemiesStep
    \/ LevelStep

SpecBounce == InitSpring /\ [][NextBounce]_vars

\* under and over the one-way platform: jumping straight up
InitGate == InitLevel(Gate)

SpecGate == InitGate /\ [][NextBounce]_vars

\* the same room, every key combination, the first MaxTicks ticks
SpecGateRun == InitGate /\ [][Next]_vars

\* resting on a platform of each kind: the player walks right during at
\* most MaxTicks ticks and no key is pressed in the others
InitRest ==
    \E kind \in { <<"Platform", "normal">>, <<"Platform", "ice">>,
                   <<"Platform", "sticky">>, <<"Bouncy", "bouncy">>,
                   <<"Falling", "fall">>, <<"OneWay", "oneway">> } :
        InitLevel(Bare(<<84, 250>>,
                       << MakePlatform(1, kind[1], kind[2], 0, 300, 200, 40) >>))

NextRest ==
    \/ TimedInputStep({k \in KeySnapshots : ~k.left /\ ~k.jump /\ ~k.dash})
    \/ BoundedInputStep({NoKeys})
    \/ UpdateStep
    \/ EnemiesStep
    \/ LevelStep

SpecRest == InitRest /\ [][NextRest]_vars

\* a shooter on the floor and the player coming down on it from straight
\* above, from two heights: no key is pressed
SpecShooter ==
    /\ \E y \in {200, 242} :
          InitLevel([Bare(<<21, y>>,
                          << MakePlatform(1, "Platform", "normal", 0, 300, 200, 40) >>)
                     EXCEPT !.enemies = << MakeShooter(21, 280) >>])
    /\ [][ \/ InputStep({NoKeys})
           \/ UpdateStep
           \/ EnemiesStep
           \/ LevelStep ]_vars

\* Level._create_platform: the platform built from a platform record d of a
\* level file; d.pattern = "absent" stands for a record without the key
\* 'pattern', speed and distance are the defaults of plat_data.get
CreatePlatform(id, d) ==
    IF d.pattern # "absent"
    THEN MakeMoving(id, d.type, d.x, d.y, d.width, d.height, d.pattern, 2, 200)
    ELSE IF d.type = "fall"
    THEN MakePlatform(id, "Falling", "fall", d.x, d.y, d.width, d.height)
    ELSE IF d.type = "bouncy"
    THEN MakePlatform(id, "Bouncy", "bouncy", d.x, d.y, d.width, d.height)
    ELSE IF d.type = "oneway"
    THEN MakePlatform(id, "OneWay", "oneway", d.x, d.y, d.width, d.height)
    ELSE MakePlatform(id, "Platform", d.type, d.x, d.y, d.width, d.height)

\* the first MaxTicks ticks over a floor loaded from a platform record of any
\* type, with or without a pattern; the player spawns standing on it and walks
\* right or stands still
SpecLoad ==
    /\ \E type \in {"normal", "ice", "sticky", "bouncy", "fall", "oneway", "lava"},
          pattern \in {"absent", "square", "still"} :
          InitLevel(Bare(<<84, 252>>,
                         << CreatePlatform(1, [x |-> 0, y |-> 300, width |-> 200,
                                               height |-> 40, type |-> type,
                                               pattern |-> pattern]) >>))
    /\ [][ \/ TimedInputStep({k \in KeySnapshots : ~k.left /\ ~k.jump /\ ~k.dash})
           \/ UpdateStep
           \/ EnemiesStep
           \/ LevelStep ]_vars

\* the arena with spikes and a power-up at the spawn point; only the dash key
\* is ever pressed
SpecTimers ==
    /\ InitLevel([ArenaThorns EXCEPT !.items = << MakeCollectible("powerup", 21, 250) >>])
    /\ [][NextDash]_vars

\* a floor and a low ceiling built with a type string that is no platform type,
\* every key combination, the first MaxTicks ticks
SpecOdd ==
    /\ InitLevel(Bare(<<84, 250>>,
                      << MakePlatform(1, "Platform", "lava", 0, 300, 200, 40),
                         MakePlatform(2, "Platform", "lava", 0, 226, 200, 20) >>))
    /\ [][Next]_vars

\* running off the floor over the void: the right key is held, the dash key
\* comes and goes
RunKeys == {k \in KeySnapshots : ~k.left /\ ~k.jump /\ k.right}

InitPit == InitLevel(Pit)

NextPit ==
    \/ InputStep(RunKeys)
    \/ UpdateStep
    \/ EnemiesStep
    \/ LevelStep

SpecPit == InitPit /\ [][NextPit]_vars

\* the same run with the pause key and the retry key
NextRetry ==
    \/ NextPit
    \/ PauseKey
    \/ RestartLevel(Pit)

SpecRetry == InitPit /\ [][NextRetry]_vars

\* the same level with the goal filling the void under the floor's edge, so that
\* a falling player reaches it on the tick of the fall death
PitGoal == [Pit EXCEPT !.goal = [x |-> 120, y |-> 949, w |-> 400, h |-> 200]]

SpecFinish ==
    InitLevel(PitGoal) /\ [][NextPit \/ PauseKey \/ RestartLevel(PitGoal)]_vars

\* standing on spikes, with collaborators that damage, heal and reset the
\* player
HealAmounts == {0, 1, PLAYER_MAX_HEALTH + 2}
HurtAmounts == {0, 1, FALL_DEATH_DAMAGE}

InitThorns == InitLevel(ArenaThorns)

NextHealth ==
    \/ NextDash
    \/ \E n \in HurtAmounts : DamageCall(n)
    \/ \E n \in HealAmounts : HealCall(n)
    \/ PlayerResetCall(ArenaThorns.spawn)

SpecHealth == InitThorns /\ [][NextHealth]_vars

(***************************************************************************)
(* Properties                                                              *)
(***************************************************************************)
\* handle_input has just returned from a call that saw a jump key edge
JumpEdge == pc = "update" /\ ~pre.dashing /\ keys.jump /\ ~pre.jump_held

\* that call also started a dash (start_dash zeroes vel_y after the jump)
DashStarted == pc = "update" /\ ~pre.dashing /\ player.dashing

\* C1: while the countdown armed by a non-fatal take_damage has not reached zero,
\* no step reduces the player's health.  (An update that finds the countdown at 1
\* brings it to zero before it checks the hazards, so it is left out.)
C1_NoDamageWhileCountdown ==
    [][ (player.invincibility_timer > 1
         \/ (player.invincibility_timer > 0 /\ pc # "update"))
        => player'.health >= player.health ]_vars

\* C2: take_damage(n) changes nothing while invincible; otherwise it subtracts n,
\* and arms invincible/90 if health stays positive, else sets health to 0 and
\* grants no invincibility.
C2_TakeDamageEffect ==
    [][ last_damage' # 0 =>
          IF player.invincible THEN player' = player
          ELSE IF player.health - last_damage' > 0
               THEN player' = [player EXCEPT
                                 !.health = player.health - last_damage',
                                 !.invincible = TRUE,
                                 !.invincibility_timer = 90]
               ELSE player' = [player EXCEPT !.health = 0] ]_vars

\* a take_damage(1) call has just armed the countdown
C2_Witness ==
    /\ last_damage = 1 /\ player.health = 2
    /\ player.invincible /\ player.invincibility_timer = 90

\* C3 as stated: whenever handle_input has returned, |vel_x| <= PLAYER_MAX_SPEED
C3_SpeedClampAlways ==
    pc = "update" => Abs(player.vel_x) <= 6 * Scale

\* the call performed a wall jump
WallJumped == JumpEdge /\ pre.on_wall # 0 /\ ~pre.on_ground

\* C3 amended: when handle_input returns from a call made while the player was not
\* dashing and that performed no wall jump, |vel_x| <= PLAYER_MAX_SPEED
C3_SpeedClamp ==
    (pc = "update" /\ ~pre.dashing /\ ~WallJumped)
        => Abs(player.vel_x) <= 6 * Scale

\* handle_input clamped a speed above the maximum
C3_Witness ==
    /\ pc = "update" /\ ~pre.dashing /\ ~WallJumped
    /\ Abs(pre.vel_x) > 6 * Scale
    /\ Abs(player.vel_x) = 6 * Scale

\* C4: a jump attempt applies one outcome in the order wall jump, ground/coyote
\* jump, double jump, nothing; an eligible wall jump wins, arms the lockout and
\* refreshes the double jump.
C4_JumpPrecedence ==
    JumpEdge =>
        IF pre.on_wall # 0 /\ ~pre.on_ground THEN
            /\ ~DashStarted => player.vel_y = -14 * Scale
            /\ player.vel_x = -pre.on_wall * 10 * Scale
            /\ player.wall_jump_timer = 5
            /\ player.double_jump_available
            /\ player.coyote_timer = pre.coyote_timer
        ELSE IF pre.on_ground \/ pre.coyote_timer > 0 THEN
            /\ ~DashStarted => player.vel_y = -16 * Scale
            /\ ~player.on_ground
            /\ player.coyote_timer = 0
            /\ player.double_jump_available = pre.double_jump_available
            /\ player.wall_jump_timer = pre.wall_jump_timer
        ELSE IF pre.double_jump_available THEN
            /\ ~DashStarted => player.vel_y = -14 * Scale
            /\ ~player.double_jump_available
            /\ player.wall_jump_timer = pre.wall_jump_timer
        ELSE
            /\ ~DashStarted => player.vel_y = pre.vel_y
            /\ ~player.double_jump_available
            /\ player.wall_jump_timer = pre.wall_jump_timer
            /\ player.jumped_this_frame = pre.jumped_this_frame

\* a wall jump was taken although the coyote jump was eligible too
C4_Witness ==
    /\ JumpEdge /\ pre.on_wall # 0 /\ ~pre.on_ground /\ pre.coyote_timer > 0
    /\ player.vel_y = -14 * Scale /\ player.wall_jump_timer = 5

C6_BufferedJump ==
    (pc = "enemies" /\ contact.ground /\ buf_age >= 1 /\ buf_age <= 8)
        => (player.vel_y = -16 * Scale /\ player.jump_buffer_timer = 0)

\* C7: on every tick whose collision passes ground the actor or set wall contact,
\* double_jump_available is true at the end of the update.
C7_DoubleJumpRefreshed ==
    (pc = "enemies" /\ (contact.ground \/ contact.wall # 0))
        => player.double_jump_available

\* C8: on a tick that is not the first of a run of ticks with the jump key up and
\* the actor ascending, handle_input does not halve vel_y.
C8_CutOnce ==
    (pc = "update" /\ cut_run /\ ~pre.dashing /\ ~keys.jump /\ pre.vel_y < 0
       /\ ~DashStarted)
        => player.vel_y = pre.vel_y

\* C9: a dash moves the actor at facing * PLAYER_DASH_SPEED with vel_y = 0 on
\* exactly PLAYER_DASH_DURATION updates.
C9_DashLasts12 ==
    (pc = "enemies" /\ contact.dash_end) => dash_ticks = 12

\* C10: dashing implies invincible.
C10_DashInvincible ==
    player.dashing => player.invincible

\* the lifecycle of a falling platform
Idle(pl) == pl.active /\ ~pl.touched /\ ~pl.falling /\ pl.shake_timer = 0

Phase(pl) ==
    IF ~pl.active THEN 3 ELSE IF pl.falling THEN 2 ELSE IF pl.touched THEN 1 ELSE 0

FallingIds == {i \in 1..Len(level) : level[i].cls = "Falling"}

\* the level as it was constructed (the floor tells the two levels apart)
Built == CHOOSE lv \in {Drop, Overhang} : lv.platforms[1] = level[1]

\* C11 as stated: the countdown armed by trigger() runs 20 updates without the
\* platform falling, the fall starts on the update after the one that ends the
\* countdown, and from then on the fall speed grows on every update.
C11_FallsOneUpdateLater ==
    [][ \A i \in FallingIds :
          LET a == level[i]
              b == level'[i]
          IN /\ (Idle(a) /\ b.touched) => b.shake_timer = 20
             /\ (a.shake_timer > 0 /\ b # a) =>
                    /\ b.shake_timer = a.shake_timer - 1
                    /\ ~b.falling /\ b.fall_speed = 0 /\ b.y = a.y
                    /\ Abs(b.x - a.original_x) <= 2
             /\ (a.falling /\ b # a) => b.fall_speed > a.fall_speed ]_vars

\* C11 amended: trigger() on an idle platform arms a countdown of 20; the next 19
\* updates shake the platform (not falling, y unchanged, x = original_x +/- 2);
\* the 20th update ends the countdown and starts the fall in the same update
\* (x = original_x, fall speed = GRAVITY); from then on every update increases the
\* fall speed.
C11_FallsWhenShakeEnds ==
    [][ \A i \in FallingIds :
          LET a == level[i]
              b == level'[i]
          IN /\ (Idle(a) /\ b.touched) =>
                    /\ b.shake_timer = 20 /\ ~b.falling
                    /\ b.x = a.x /\ b.y = a.y
             /\ (a.shake_timer > 0 /\ b # a) =>
                    /\ b.shake_timer = a.shake_timer - 1
                    /\ IF b.shake_timer > 0
                       THEN /\ ~b.falling /\ b.fall_speed = 0 /\ b.y = a.y
                            /\ Abs(b.x - a.original_x) = 2
                       ELSE /\ b.falling /\ b.fall_speed = GRAVITY
                            /\ b.x = a.original_x
             /\ (a.falling /\ b # a) =>
                    /\ b.fall_speed > a.fall_speed
                    /\ b.y >= a.y ]_vars

\* a platform on the update that ended its countdown: already falling
C11_Witness ==
    \E i \in FallingIds :
        /\ level[i].falling /\ level[i].shake_timer = 0
        /\ level[i].fall_speed = GRAVITY /\ level[i].active

\* C12: a falling platform is deactivated only below SCREEN_HEIGHT + 100, and
\* neither its active flag nor its lifecycle phase ever steps back except in a
\* Level.reset.
C12_InactiveForGood ==
    [][ \A i \in FallingIds :
          LET a == level[i]
              b == level'[i]
          IN /\ (a.active /\ ~b.active) => b.y > SCREEN_HEIGHT + 100
             /\ (~a.active /\ b.active) => level' = LevelReset(level)
             /\ Phase(b) < Phase(a) => level' = LevelReset(level) ]_vars

\* a platform still inactive well after it left the world
C12_Witness ==
    \E i \in FallingIds :
        ~level[i].active /\ level[i].y > SCREEN_HEIGHT + 130

\* C13: a step that is not the platforms' own update (so a landing of the player
\* or a trigger() call) leaves a platform that is not idle unchanged.
C13_TriggerOnlyFromIdle ==
    [][ \A i \in FallingIds :
          (pc # "level" /\ ~Idle(level[i])) => level'[i] = level[i] ]_vars

\* the player has just landed on a platform whose countdown was already running
C13_Witness ==
    /\ pc = "enemies" /\ contact.ground
    /\ \E i \in FallingIds :
        /\ player.current_platform = i
        /\ level[i].shake_timer > 0 /\ level[i].shake_timer < 20

\* the vertical pass of the update just run landed the player on bouncy platform i
Bounced(i) ==
    /\ pc = "enemies" /\ contact.ground
    /\ level[i].type = "bouncy"
    /\ level[i].bounce_animation = BOUNCE_ANIMATION_FRAMES

\* C14: at the end of an update that landed the actor on a bouncy platform, the
\* actor's vel_y is the platform's bounce_strength.
C14_BounceImpulse ==
    \A i \in 1..Len(level) : Bounced(i) => player.vel_y = -20 * Scale

OneWayIds == {i \in 1..Len(level) : level[i].type = "oneway"}

\* the player of the current state after player.update's displacement, before
\* the vertical pass, and after it
BeforeVertical == Displaced([p |-> player, level |-> level])
AfterVertical == Integrate([p |-> player, level |-> level]).p

\* the one-way gate of lines 283: falling, and the bottom before the vertical
\* displacement no lower than the platform top plus 10
GateOpen(d, pl) ==
    /\ d.vel_y > 0
    /\ (d.y + PLAYER_HEIGHT) * Scale - d.vel_y <= (pl.y + 10) * Scale

\* the player's velocity and position of this update if nothing were in the way
FreeMotion ==
    LET p1 == MoveVelocity(player)
    IN [p1 EXCEPT !.x = PxAdd(player.x, p1.vel_x), !.y = PxAdd(player.y, p1.vel_y)]

\* no platform other than one-way ones is touched on the free path of this update
OnlyOneWayInReach ==
    \A j \in 1..Len(level) :
        level[j].type # "oneway" =>
            /\ ~PlayerCollides([FreeMotion EXCEPT !.y = player.y], level[j])
            /\ ~PlayerCollides(FreeMotion, level[j])

\* C15: unless the actor is falling onto it from above, a one-way platform changes
\* neither the position nor the velocity the update gives the actor.
C15_OneWayPassable ==
    (pc = "update" /\ OnlyOneWayInReach
       /\ \A i \in OneWayIds : ~GateOpen(FreeMotion, level[i]))
        => /\ AfterVertical.x = FreeMotion.x
           /\ AfterVertical.y = FreeMotion.y
           /\ AfterVertical.vel_x = FreeMotion.vel_x
           /\ AfterVertical.vel_y = FreeMotion.vel_y

\* C16: the vertical pass lands the actor on an overlapping one-way platform iff
\* vel_y > 0 and bottom - vel_y <= top + 10; otherwise it leaves the actor as it
\* found it (no landing, no head bump).
C16_OneWayVertical ==
    pc = "update" =>
        \A i \in OneWayIds :
            (/\ PlayerCollides(BeforeVertical, level[i])
             /\ \A j \in 1..Len(level) :
                    j # i => ~PlayerCollides(BeforeVertical, level[j]))
            => IF GateOpen(BeforeVertical, level[i])
               THEN /\ AfterVertical.y = level[i].y - PLAYER_HEIGHT
                    /\ AfterVertical.vel_y = 0
                    /\ AfterVertical.on_ground
                    /\ AfterVertical.current_platform = i
                    /\ AfterVertical.x = BeforeVertical.x
                    /\ AfterVertical.vel_x = BeforeVertical.vel_x
               ELSE /\ AfterVertical.y = BeforeVertical.y
                    /\ AfterVertical.vel_y = BeforeVertical.vel_y
                    /\ ~AfterVertical.on_ground
                    /\ AfterVertical.current_platform = 0
                    /\ AfterVertical.x = BeforeVertical.x
                    /\ AfterVertical.vel_x = BeforeVertical.vel_x

\* the actor is about to land on the one-way platform from above
C16_Witness ==
    /\ pc = "update"
    /\ \E i \in OneWayIds :
        /\ PlayerCollides(BeforeVertical, level[i])
        /\ GateOpen(BeforeVertical, level[i])
        /\ AfterVertical.on_ground /\ AfterVertical.current_platform = i

\* C17: at the end of any update in which the player's y exceeds
\* SCREEN_HEIGHT + 100 the player's health is 0, whatever the dash and
\* invincibility state
C17_FallKills ==
    (pc = "enemies" /\ player.y > SCREEN_HEIGHT + FALL_DEATH_MARGIN)
        => player.health = 0

\* C18: in every reachable state 0 <= health <= PLAYER_MAX_HEALTH, after any
\* sequence of take_damage (any non-negative amount, 999 included), heal and
\* reset calls
C18_HealthInRange ==
    player.health >= 0 /\ player.health <= PLAYER_MAX_HEALTH

\* take_damage(999) has just taken the last of the player's health
C18_Witness ==
    /\ pc = "enemies"
    /\ last_damage = FALL_DEATH_DAMAGE
    /\ player.health = 0 /\ ~player.invincible

\* a platform taken out of the reach of the player
Elsewhere(pl) ==
    [pl EXCEPT !.x = 0 - (SCREEN_HEIGHT + pl.w), !.y = 0 - (SCREEN_HEIGHT + pl.h)]

\* the level with its inactive platforms taken out of reach
Cleared ==
    [i \in 1..Len(level) |->
        IF level[i].active THEN level[i] ELSE Elsewhere(level[i])]

\* C19: a platform that is inactive when collisions are resolved never affects
\* the player: the update moves the player as if the platform were not there
\* (no clamp, no zeroed velocity, no ground or wall contact), the platform is
\* not the one landed on, is left as it was, and is not drawn
C19_InactiveIgnored ==
    [][ pc = "update" =>
          LET g == Update([p |-> player, level |-> Cleared,
                           hazards |-> hazards, items |-> items])
          IN /\ player' = g.p
             /\ \A i \in 1..Len(level) :
                  IF level[i].active THEN level'[i] = g.level[i]
                  ELSE /\ level'[i] = level[i]
                       /\ player'.current_platform # i
                       /\ i \notin DrawnPlatforms(level') ]_vars

\* collisions have just been resolved with an inactive platform overlapping
\* the player
C19_Witness ==
    /\ pc = "enemies"
    /\ \E i \in 1..Len(level) :
         /\ ~level[i].active
         /\ PlayerCollides(player, level[i])
         /\ player.on_ground /\ player.current_platform # i

\* C20: after Level.reset() every falling platform is active and idle, with
\* fall_speed 0, and its rectangle is back at the x and y it was constructed
\* with, whatever it was doing before the reset
C20_ResetRestores ==
    [][ ResetCall =>
          \A i \in FallingIds :
              /\ Idle(level'[i]) /\ level'[i].fall_speed = 0
              /\ level'[i].x = Built.platforms[i].x
              /\ level'[i].y = Built.platforms[i].y ]_vars

\* C21: after Player.reset(x, y), called in any reachable state, the player is
\* at (x, y) with zero velocity, full health, not invincible, not dashing, and
\* every timer (coyote, jump buffer, dash, dash cooldown, wall-jump lockout,
\* invincibility, power-up) is zero
C21_ResetClearsAll ==
    [][ PlayerResetCall(ArenaThorns.spawn) =>
          /\ player'.x = ArenaThorns.spawn[1] /\ player'.y = ArenaThorns.spawn[2]
          /\ player'.vel_x = 0 /\ player'.vel_y = 0
          /\ player'.health = PLAYER_MAX_HEALTH
          /\ ~player'.invincible /\ ~player'.dashing
          /\ player'.coyote_timer = 0 /\ player'.jump_buffer_timer = 0
          /\ player'.dash_timer = 0 /\ player'.dash_cooldown_timer = 0
          /\ player'.wall_jump_timer = 0 /\ player'.invincibility_timer = 0
          /\ player'.powerup_timer = 0 ]_vars

\* C22: if the checkpoint has been activated during play, a retry
\* (restart_level after game over or from pause) places the new player at the
\* checkpoint position rather than at the level's initial spawn point
C22_RetryAtCheckpoint ==
    [][ (RestartLevel(Pit) /\ checkpoint.present /\ checkpoint.activated) =>
          /\ player'.x = checkpoint.position[1]
          /\ player'.y = checkpoint.position[2] ]_vars

\* C23: no enemy operation changes a field of the player: over the enemy loop
\* the player changes only by the score the game loop adds and by what
\* Player.take_damage(1) does
C23_EnemiesLeavePlayer ==
    [][ EnemiesStep =>
          LET seen == [player' EXCEPT !.score = player.score]
          IN seen = player \/ seen = TakeDamage(player, 1) ]_vars

\* C24: within each playing tick every platform's position and timer update
\* for the tick is performed before the player's collision resolution: when
\* the tick hands over to player.update, the platforms are the ones the
\* tick found, updated once
C24_PlatformsFirst ==
    [][ (pc = "input" /\ pc' = "update") =>
          level' = [i \in 1..Len(level) |-> PlatformUpdate(level[i])] ]_vars

\* the level with every platform of an unknown type rebuilt as a normal one
AsNormal ==
    [i \in 1..Len(level) |->
        IF level[i].type \in {"normal", "ice", "sticky", "bouncy", "fall", "oneway"}
        THEN level[i]
        ELSE MakePlatform(i, "Platform", "normal",
                          level[i].x, level[i].y, level[i].w, level[i].h)]

\* C25: a platform built with an unknown type string behaves exactly like a
\* normal platform: every update moves the player as it would on the level
\* with normal platforms in its place (same friction, landing, head bump, no
\* bounce, no one-way gate) and leaves the platform as it was (no trigger)
C25_UnknownTypeIsNormal ==
    [][ pc = "update" =>
          /\ player' = Update([p |-> player, level |-> AsNormal,
                               hazards |-> hazards, items |-> items]).p
          /\ level' = level ]_vars

\* the player has just landed, moving sideways, on a platform of unknown type
C25_Witness ==
    /\ pc = "enemies"
    /\ player.on_ground /\ player.vel_x # 0
    /\ player.current_platform # 0
    /\ level[player.current_platform].type = "lava"

\* C26: with no movement input, on any kind of platform the actor rests on,
\* |vel_x| at the end of a tick (after input friction and landing friction) is
\* no larger than at its start and vel_x has not changed sign
C26_FrictionDamps ==
    [][ (pc = "update" /\ pc' = "enemies" /\ keys = NoKeys /\ ~pre.dashing
         /\ pre.y + PLAYER_HEIGHT = level[1].y) =>
          /\ Abs(player'.vel_x) <= Abs(pre.vel_x)
          /\ player'.vel_x * pre.vel_x >= 0 ]_vars

\* C27: after a wall jump, wall contact is not detected for the next 5 ticks:
\* on_wall is 0 at the end of each of the 5 updates that follow the jump (the
\* updates that start with the lockout at 5, 4, 3, 2 and 1)
C27_LockoutFiveUpdates ==
    [][ (pc = "update" /\ pc' = "enemies" /\ player.wall_jump_timer > 0) =>
          player'.on_wall = 0 ]_vars

\* C28: a dash starts only when dash_cooldown_timer = 0 and no dash is active,
\* and it arms the cooldown with PLAYER_DASH_COOLDOWN; the cooldown loses
\* exactly 1 per update and nothing else changes it, so two consecutive dash
\* starts are at least PLAYER_DASH_COOLDOWN ticks apart, the dash key held or not
C28_DashCooldown ==
    [][ IF player'.dashing /\ (~player.dashing \/ player'.dash_timer > player.dash_timer)
        THEN /\ pc = "input"
             /\ player.dash_cooldown_timer = 0 /\ ~player.dashing
             /\ player'.dash_cooldown_timer = PLAYER_DASH_COOLDOWN
        ELSE player'.dash_cooldown_timer =
                IF pc = "update" /\ pc' = "enemies"
                THEN Max(0, player.dash_cooldown_timer - 1)
                ELSE player.dash_cooldown_timer ]_vars

\* the dash key is held and a dash has just started again: an earlier dash has
\* moved the player
C28_Witness ==
    /\ DashStarted /\ keys.dash
    /\ pre.x # ArenaSpikes.spawn[1]
    /\ pre.dash_cooldown_timer = 0

\* C29: while the player is dashing, handle_input leaves every player field
\* unchanged whatever the keys are, and an update in which the dash goes on
\* integrates a vel_y of 0 and leaves it 0: gravity is not applied
C29_DashIgnoresInput ==
    [][ /\ (pc = "input" /\ pc' = "update" /\ player.dashing) => player' = player
        /\ (pc = "update" /\ pc' = "enemies" /\ player.dashing /\ player'.dashing) =>
              (contact'.vy = 0 /\ player'.vel_y = 0) ]_vars

\* handle_input has just been called with left, jump and dash pressed while the
\* player was dashing
C29_Witness ==
    /\ pc = "update" /\ pre.dashing
    /\ keys.left /\ keys.jump /\ keys.dash /\ ~keys.right

\* every timer of the player is within [0, its arming constant]
TimersInRange(p) ==
    /\ p.coyote_timer \in 0..PLAYER_COYOTE_TIME
    /\ p.jump_buffer_timer \in 0..PLAYER_JUMP_BUFFER
    /\ p.dash_timer \in 0..PLAYER_DASH_DURATION
    /\ p.dash_cooldown_timer \in 0..PLAYER_DASH_COOLDOWN
    /\ p.wall_jump_timer \in 0..WALL_JUMP_LOCKOUT
    /\ p.invincibility_timer \in 0..PLAYER_INVINCIBILITY_FRAMES
    /\ p.powerup_timer \in 0..POWERUP_DURATION

\* C30 as stated: every timer is within [0, its arming constant] and one update
\* decreases each non-zero timer by exactly 1
C30_TimersCountDown ==
    [][ /\ TimersInRange(player')
        /\ (pc = "update" /\ pc' = "enemies") =>
              \A t \in {"coyote_timer", "jump_buffer_timer", "dash_timer",
                        "dash_cooldown_timer", "wall_jump_timer",
                        "invincibility_timer", "powerup_timer"} :
                  player[t] > 0 => player'[t] = player[t] - 1 ]_vars

\* C30: every timer is within [0, its arming constant]; one update takes
\* exactly 1 off each non-zero timer and never goes below 0, and the timer ends
\* the update at that value unless the same update arms it again (coyote on
\* leaving the ground, invincibility on damage, power-up on collection) or
\* clears it (jump buffer and coyote on a buffered jump)
C30_TimersInRange ==
    [][ /\ TimersInRange(player')
        /\ (pc = "update" /\ pc' = "enemies") =>
              LET d == UpdateTimers(player) IN
              /\ \A t \in {"coyote_timer", "jump_buffer_timer", "dash_cooldown_timer",
                           "wall_jump_timer", "invincibility_timer", "powerup_timer"} :
                    d[t] = Max(0, player[t] - 1)
              /\ player'.coyote_timer \in {d.coyote_timer, PLAYER_COYOTE_TIME, 0}
              /\ player'.jump_buffer_timer \in {d.jump_buffer_timer, 0}
              /\ player'.dash_timer = Max(0, player.dash_timer - 1)
              /\ player'.dash_cooldown_timer = d.dash_cooldown_timer
              /\ player'.wall_jump_timer = d.wall_jump_timer
              /\ player'.invincibility_timer \in
                    {d.invincibility_timer, PLAYER_INVINCIBILITY_FRAMES}
              /\ player'.powerup_timer \in {d.powerup_timer, POWERUP_DURATION} ]_vars

\* an update has just counted down the dash, dash cooldown, invincibility and
\* power-up timers together
C30_Witness ==
    /\ pc = "enemies"
    /\ player.dash_timer \in 1..(PLAYER_DASH_DURATION - 1)
    /\ player.dash_cooldown_timer \in 1..(PLAYER_DASH_COOLDOWN - 1)
    /\ player.invincibility_timer \in 1..(PLAYER_INVINCIBILITY_FRAMES - 1)
    /\ player.powerup_timer \in 1..(POWERUP_DURATION - 1)

\* C31: once trigger() has been called on an idle falling platform (platform 2
\* of the level), the platform eventually becomes inactive, the level being
\* updated every tick and never reset
C31_TriggeredFallsOut ==
    (level[2].touched /\ level[2].active) ~> ~level[2].active

\* the triggered platform has fallen out of the world and has just been
\* deactivated
C31_Witness ==
    /\ level[2].touched /\ level[2].falling /\ ~level[2].active
    /\ level[2].y - level[2].fall_speed \div Scale <= SCREEN_HEIGHT + FALL_DEATH_MARGIN + 1

\* C32: when the player's health is 0 at the end of a playing tick the state
\* becomes GAME_OVER on that tick, the goal having been reached or not, and
\* from then on neither the player nor the level changes until restart_level
C32_DeadIsGameOver ==
    [][ /\ (LevelStep /\ player'.health = 0) => state' = "game_over"
        /\ state = "game_over" =>
              \/ state' = "game_over" /\ player' = player /\ level' = level
              \/ RestartLevel(PitGoal) ]_vars

\* the player died of the fall on the tick on which it reached the goal
C32_Witness ==
    state = "game_over" /\ completed /\ player.health = 0 /\ pc = "input"

\* C33: a jump key edge gives at most one jump impulse: a jump executed by
\* update (the buffered jump) comes from a press whose attempt on the key edge
\* executed no jump
C33_OneJumpPerPress ==
    [][ (UpdateStep /\ player'.jumped_this_frame) => buf_age # NotCounting ]_vars

\* C34: a ground or coyote jump (on the key edge in handle_input, or the
\* buffered jump of update) leaves the player off the ground with the coyote
\* timer cleared, and from there no step executes a ground-strength jump or
\* arms the coyote timer until the vertical collision pass lands the player
C34_NoSecondGroundJump ==
    [][ LET OffGround(p) == ~p.on_ground /\ p.coyote_timer = 0
            GroundJumped ==
                \/ /\ pc = "input" /\ pc' = "update"
                   /\ ~player.dashing /\ keys'.jump /\ ~player.jump_held
                   /\ player.on_ground \/ player.coyote_timer > 0
                   /\ ~(player.on_wall # 0 /\ ~player.on_ground)
                \/ UpdateStep /\ player'.jumped_this_frame
        IN /\ GroundJumped => OffGround(player')
           /\ OffGround(player) =>
                 \/ OffGround(player') /\ ~GroundJumped
                 \/ UpdateStep /\ contact'.ground ]_vars

\* in the air after a jump, out of coyote time and away from the walls, a new
\* jump press gets the double jump only
C34_Witness ==
    /\ JumpEdge /\ ~pre.on_ground /\ pre.coyote_timer = 0
    /\ pre.on_wall = 0 /\ pre.vel_y < 0
    /\ pre.double_jump_available
    /\ player.vel_y = PLAYER_DOUBLE_JUMP_STRENGTH

\* C35: in every reachable state an invincible player has its invincibility
\* countdown running or is dashing
C35_InvincibleEnds ==
    player.invincible => (player.invincibility_timer > 0 \/ player.dashing)

\* the last update of a dash is about to run: invincible by the dash alone
C35_Witness ==
    /\ pc = "update" /\ player.invincible /\ player.dashing
    /\ player.dash_timer = 1 /\ player.invincibility_timer = 0

\* C36: at the end of every update (where the game loop emits the wall-slide
\* particles) wall_sliding implies that the player is not dashing, is not
\* grounded and is in wall contact
C36_SlideIsReal ==
    (pc = "enemies" /\ player.wall_sliding)
        => (~player.dashing /\ ~player.on_ground /\ player.on_wall # 0)

\* C37: MovingPlatform.get_velocity() is a read-only query: player.update,
\* which calls it for the platform the player stands on, leaves every moving
\* platform's time counter and rectangle as they were
C37_GetVelocityReadOnly ==
    [][ UpdateStep =>
          \A i \in 1..Len(level) :
              level[i].cls = "Moving" =>
                  /\ level'[i].time = level[i].time
                  /\ level'[i].x = level[i].x /\ level'[i].y = level[i].y ]_vars

\* C39: resolving a landing raises no error, whatever the type of the platform
\* record and whether or not it has a pattern
C39_LandingNeverRaises ==
    state # "crashed"

\* C38: once every enemy is dead the enemy loop leaves the player alone: no
\* damage, no stomp bounce and no score, projectiles fired by a shooter before
\* it died included
C38_DeadEnemyHarmless ==
    [][ (EnemiesStep /\ \A i \in 1..Len(enemies) : ~enemies[i].alive)
            => player' = player ]_vars

====
